---- MODULE Spec2Model ----
(***************************************************************************)
(* Sistema PQRSD: case-number generation and uniqueness under concurrent   *)
(* creation (app/services/caso.py), over a relational store with a unique  *)
(* index on numero_caso_completo.                                          *)
(*                                                                         *)
(* Strings the program builds are sequences of one-character strings, so   *)
(* that formatting is computed and not assumed.                            *)
(***************************************************************************)
EXTENDS Integers, Sequences, FiniteSets, Bags, TLC

(***************************************************************************)
(* Bounds of the model.                                                    *)
(***************************************************************************)
\* requests of crear_nuevo_caso in the general specification
NumReq == 2
\* the clock takes the values 0..MaxReloj
MaxReloj == 1
\* clock values per calendar year
TicksPorAnio == 1
\* calls of actualizar_caso_existente in one behaviour
MaxActualizaciones == 2
\* requests of the same-bucket race
NumConc == 6
\* requests of crear_nuevo_caso in the specification with updates
NumReqAct == 2
\* formatear_numero_caso is applied to every number 1..MaxNumeroFmt
MaxNumeroFmt == 12
\* requests of crear_nuevo_caso in the specification with fairness
NumReqFin == 2
\* calls of actualizar_caso_existente while creations race
MaxActCarrera == 1
\* requests of crear_nuevo_caso in the specification of the case's life
NumReqVida == 1
\* requests of crear_nuevo_caso in the specification of all the operations
NumReqServ == 1

(***************************************************************************)
(* Program constants.                                                      *)
(***************************************************************************)
\* crear_nuevo_caso(caso_data, max_intentos=5)
MaxIntentosDefault == 5
\* {numero_caso:04d}
AnchoNumero == 4
\* the year the example data is generated for
AnioInicial == 2025
\* random.uniform(0, 1): the least and the greatest jitter, in seconds
JitterMin == 0
JitterMax == 1
\* buscar_casos_por_patron_numero(patron, limite=50)
LimiteDefault == 50

NULL == "NULL"

TipoCaso == {"PETICION", "QUEJA", "RECLAMO", "SUGERENCIA", "DENUNCIA"}

EstadoCaso == {"RECIBIDO", "EN_PROCESO", "RESUELTO", "CERRADO"}

(***************************************************************************)
(* formatear_numero_caso                                                   *)
(***************************************************************************)
Digitos == <<"0", "1", "2", "3", "4", "5", "6", "7", "8", "9">>

RECURSIVE Decimal(_)
\* str(n) for n >= 0
Decimal(n) ==
    IF n < 10 THEN <<Digitos[n + 1]>>
    ELSE Decimal(n \div 10) \o <<Digitos[(n % 10) + 1]>>

\* the number cut to its last `ancho` digits
FormatoCeros_Truncado(n, ancho) ==
    LET d == [i \in 1..ancho |-> "0"] \o Decimal(n)
    IN  SubSeq(d, Len(d) - ancho + 1, Len(d))

\* format(n, "0{ancho}d") for n >= 0: zeros on the left up to the width,
\* nothing cut when the number is wider
FormatoCeros(n, ancho) ==
    LET d == Decimal(n)
    IN  IF Len(d) >= ancho THEN d
        ELSE [i \in 1..(ancho - Len(d)) |-> "0"] \o d

prefijos ==
    [t \in TipoCaso |->
        CASE t = "PETICION"   -> <<"P", "E", "T">>
          [] t = "QUEJA"      -> <<"Q", "U", "E">>
          [] t = "RECLAMO"    -> <<"R", "E", "C">>
          [] t = "SUGERENCIA" -> <<"S", "U", "G">>
          [] t = "DENUNCIA"   -> <<"D", "E", "N">>]

formatear_numero_caso(tipo, numero_caso, anio) ==
    prefijos[tipo] \o <<"-">> \o Decimal(anio) \o <<"-">>
        \o FormatoCeros(numero_caso, AnchoNumero)

(***************************************************************************)
(* parsear_numero_caso                                                     *)
(***************************************************************************)
RECURSIVE split(_, _)
\* str.split(sep) for a separator of one character
split(s, sep) ==
    IF \A i \in 1..Len(s) : s[i] # sep THEN <<s>>
    ELSE LET i == CHOOSE k \in 1..Len(s) :
                      s[k] = sep /\ \A j \in 1..(k - 1) : s[j] # sep
         IN  <<SubSeq(s, 1, i - 1)>> \o split(SubSeq(s, i + 1, Len(s)), sep)

EsDigito(ch) == \E k \in 1..10 : Digitos[k] = ch

RECURSIVE ValorDecimal(_)
\* the number that a sequence of digits writes
ValorDecimal(d) ==
    IF d = <<>> THEN 0
    ELSE 10 * ValorDecimal(SubSeq(d, 1, Len(d) - 1))
         + (CHOOSE k \in 1..10 : Digitos[k] = d[Len(d)]) - 1

RECURSIVE SinEspacios(_)
\* the string without its leading and trailing spaces
SinEspacios(s) ==
    IF s = <<>> THEN s
    ELSE IF Head(s) = " " THEN SinEspacios(Tail(s))
    ELSE IF s[Len(s)] = " " THEN SinEspacios(SubSeq(s, 1, Len(s) - 1))
    ELSE s

\* int(s): spaces around, an optional sign, then digits, single underscores
\* allowed between digits; ok is FALSE where int raises ValueError
int(s) ==
    LET t == SinEspacios(s)
        signo == IF t # <<>> /\ Head(t) \in {"+", "-"} THEN Head(t) ELSE ""
        c == IF signo = "" THEN t ELSE Tail(t)
        bien == /\ c # <<>>
                /\ \A i \in 1..Len(c) : EsDigito(c[i]) \/ c[i] = "_"
                /\ c[1] # "_" /\ c[Len(c)] # "_"
                /\ \A i \in 1..(Len(c) - 1) : ~(c[i] = "_" /\ c[i + 1] = "_")
        digitos == SelectSeq(c, EsDigito)
    IN  IF bien
        THEN [ok |-> TRUE,
              valor |-> IF signo = "-" THEN 0 - ValorDecimal(digitos)
                        ELSE ValorDecimal(digitos)]
        ELSE [ok |-> FALSE, valor |-> 0]

\* the table from code to type
prefijos_inverso ==
    <<"P", "E", "T">> :> "PETICION" @@ <<"Q", "U", "E">> :> "QUEJA" @@
    <<"R", "E", "C">> :> "RECLAMO" @@ <<"S", "U", "G">> :> "SUGERENCIA" @@
    <<"D", "E", "N">> :> "DENUNCIA"

\* the function returns (tipo, anio, numero)
Parseado(tipo, anio, numero) ==
    [excepcion |-> "ninguna", status_code |-> 0,
     tipo |-> tipo, anio |-> anio, numero |-> numero]

\* the function raises HTTPException(400)
NoParseado ==
    [excepcion |-> "HTTPException", status_code |-> 400,
     tipo |-> NULL, anio |-> 0, numero |-> 0]

\* the number read from the first AnchoNumero characters of its part
parsear_numero_caso_CuatroDigitos(numero_caso_completo) ==
    LET partes == split(numero_caso_completo, "-")
    IN  IF Len(partes) # 3 THEN NoParseado
        ELSE IF partes[1] \notin DOMAIN prefijos_inverso THEN NoParseado
        ELSE IF ~int(partes[2]).ok \/ ~int(partes[3]).ok THEN NoParseado
        ELSE Parseado(prefijos_inverso[partes[1]], int(partes[2]).valor,
                      int(SubSeq(partes[3], 1,
                                 IF Len(partes[3]) < AnchoNumero
                                 THEN Len(partes[3])
                                 ELSE AnchoNumero)).valor)

\* split on "-", three parts, the prefix looked up, int() of the other two;
\* ValueError raises HTTP 400
parsear_numero_caso(numero_caso_completo) ==
    LET partes == split(numero_caso_completo, "-")
    IN  IF Len(partes) # 3 THEN NoParseado
        ELSE IF partes[1] \notin DOMAIN prefijos_inverso THEN NoParseado
        ELSE IF ~int(partes[2]).ok \/ ~int(partes[3]).ok THEN NoParseado
        ELSE Parseado(prefijos_inverso[partes[1]], int(partes[2]).valor,
                      int(partes[3]).valor)

(***************************************************************************)
(* State                                                                   *)
(***************************************************************************)
VARIABLES
    casos,          \* the rows of table "casos"
    next_id,        \* the sequence behind the primary key
    reloj,          \* the wall clock
    solicitudes,    \* the calls of crear_nuevo_caso made so far, each with
                    \* its arguments, locals, sessions and outcome (a bag:
                    \* calls are told apart by their state only)
    n_act,          \* calls of actualizar_caso_existente so far
    http_act,       \* outcome of the last actualizar_caso_existente
    fmt,            \* a call of formatear_numero_caso: arguments and result
    consulta        \* the last call of a read-only service function: its
                    \* name and what it returned or raised

vars == <<casos, next_id, reloj, solicitudes, n_act, http_act, fmt, consulta>>

(***************************************************************************)
(* Sessions (database.py get_database_session, used as a context manager)  *)
(***************************************************************************)
\* SessionLocal(): a session with no transaction begun
AbrirSesion == "abierta"

\* a statement of an open session runs in its transaction, begun if needed
Ejecutar(s) == IF s = "cerrada" THEN s ELSE "transaccion"

\* a session that leaving the with block does not close
SalirWith_SinCerrar(s) == s

\* leaving the with block, normally or by an exception: rollback of what is
\* not committed, connection released
SalirWith(s) == "cerrada"

(***************************************************************************)
(* The clock                                                               *)
(***************************************************************************)
\* datetime.now().year
AnioDe(t) == AnioInicial + (t \div TicksPorAnio)

(***************************************************************************)
(* Rows                                                                    *)
(***************************************************************************)
Maximo(S) == CHOOSE m \in S : \A x \in S : x <= m

\* the two-argument factory: anio is not passed on to the row
from_pydantic_SinAnio(data, numero_caso, anio, numero_caso_completo) ==
    [numero_caso          |-> numero_caso,
     anio                 |-> 0,
     numero_caso_completo |-> numero_caso_completo,
     tipo                 |-> data.tipo,
     datos                |-> data.datos,
     estado               |-> "RECIBIDO",
     respuesta            |-> NULL]

\* the initial status is not the first of the flow
from_pydantic_EnProceso(data, numero_caso, anio, numero_caso_completo) ==
    [numero_caso          |-> numero_caso,
     anio                 |-> anio,
     numero_caso_completo |-> numero_caso_completo,
     tipo                 |-> data.tipo,
     datos                |-> data.datos,
     estado               |-> "EN_PROCESO",
     respuesta            |-> NULL]

\* Caso.from_pydantic: the submitted fields, the generated number, and the
\* initial status; respuesta is not set
from_pydantic(data, numero_caso, anio, numero_caso_completo) ==
    [numero_caso          |-> numero_caso,
     anio                 |-> anio,
     numero_caso_completo |-> numero_caso_completo,
     tipo                 |-> data.tipo,
     datos                |-> data.datos,
     estado               |-> "RECIBIDO",
     respuesta            |-> NULL]

\* the row an INSERT of object o stores: the primary key from the sequence,
\* both timestamps from the server's now()
Fila(o, id, t) ==
    [id                   |-> id,
     numero_caso          |-> o.numero_caso,
     anio                 |-> o.anio,
     numero_caso_completo |-> o.numero_caso_completo,
     tipo                 |-> o.tipo,
     datos                |-> o.datos,
     estado               |-> o.estado,
     respuesta            |-> o.respuesta,
     fecha_creacion       |-> t,
     fecha_actualizacion  |-> t]

\* a table without the unique index
ViolaUnico_SinIndice(tabla, o) == FALSE

\* unique index idx_caso_numero_completo
ViolaUnico(tabla, o) ==
    \E c \in tabla : c.numero_caso_completo = o.numero_caso_completo

\* rows present before any request, seq[i] = <<tipo, anio, numero_caso>>:
\* inserted with the number formatted the same way
FilasSemilla(seq) ==
    { Fila(from_pydantic([tipo |-> seq[i][1], datos |-> "semilla"], seq[i][3],
                         seq[i][2],
                         formatear_numero_caso(seq[i][1], seq[i][3], seq[i][2])),
           i, 0) : i \in 1..Len(seq) }

(***************************************************************************)
(* generar_numero_caso                                                     *)
(***************************************************************************)
\* numero_caso of the rows of one tipo, of any year
NumerosDe_SinAnio(tabla, tipo, anio) ==
    { c.numero_caso : c \in { x \in tabla : x.tipo = tipo } }

\* numero_caso of the rows of one (tipo, anio)
NumerosDe(tabla, tipo, anio) ==
    { c.numero_caso : c \in { x \in tabla : x.tipo = tipo /\ x.anio = anio } }

\* the next number taken from the count of the rows, not from the maximum
generar_numero_caso_Conteo(tabla, tipo, t) ==
    <<Cardinality(NumerosDe(tabla, tipo, AnioDe(t))) + 1, AnioDe(t)>>

\* the greatest number itself, not its successor
generar_numero_caso_SinSumar(tabla, tipo, t) ==
    LET nums == NumerosDe(tabla, tipo, AnioDe(t))
    IN  <<IF nums = {} THEN 1 ELSE Maximo(nums), AnioDe(t)>>

\* the pair (siguiente_numero, año_actual) read from table contents `tabla`
\* at clock value t
generar_numero_caso(tabla, tipo, t) ==
    LET anio_actual == AnioDe(t)
        nums == NumerosDe(tabla, tipo, anio_actual)
        max_numero == IF nums = {} THEN 0 ELSE Maximo(nums)
    IN  <<max_numero + 1, anio_actual>>

(***************************************************************************)
(* crear_nuevo_caso                                                        *)
(***************************************************************************)
SinResultado == [clase |-> "ninguno", status_code |-> 0, id |-> 0]

\* no Caso object built yet
SinCandidato ==
    [numero_caso |-> 0, anio |-> 0, numero_caso_completo |-> <<>>,
     tipo |-> NULL, datos |-> NULL, estado |-> NULL, respuesta |-> NULL]

\* a call crear_nuevo_caso(caso_data, max_intentos) that has just been made
NuevaSolicitud(tipo, datos, maxi) ==
    [pc           |-> "loop",
     caso_data    |-> [tipo |-> tipo, datos |-> datos],
     max_intentos |-> maxi,
     intento      |-> 0,               \* the loop variable
     candidato    |-> SinCandidato,    \* nuevo_caso_db of the running attempt
     db           |-> "cerrada",       \* the session of the attempt's with block
     db_gen       |-> "cerrada",       \* the session of generar_numero_caso
     n_insert     |-> 0,               \* commits of an INSERT issued
     n_dup        |-> 0,               \* of them, rejected by the unique index
     n_sleep      |-> 0,               \* time.sleep calls made
     espera_min   |-> 0,               \* seconds slept so far, every jitter
     espera_max   |-> 0,               \* at its least, and at its greatest
     insertado    |-> 0,               \* id of the row it stored, 0 when none
     resultado    |-> SinResultado]    \* what the call returned or raised

\* a delay that grows by two seconds per attempt
tiempo_base_Lineal(intento) == 2 * (intento + 1)

\* tiempo_base = 2 ** intento, in seconds
tiempo_base(intento) == 2 ^ intento

\* time.sleep(tiempo_base + jitter) is called by request q1: the jitter is
\* any value between JitterMin and JitterMax
Dormir(q1) ==
    [q1 EXCEPT !.pc = "sleep",
               !.n_sleep = @ + 1,
               !.espera_min = @ + tiempo_base(q1.intento) + JitterMin,
               !.espera_max = @ + tiempo_base(q1.intento) + JitterMax]

\* str(e).lower() of an IntegrityError, as far as the handler looks at it
MensajeDuplicado == [numero_caso |-> TRUE, unique_constraint |-> TRUE]

Mensajes == [numero_caso : BOOLEAN, unique_constraint : BOOLEAN]

\* a test that recognises no error text as a duplicate
EsDuplicado_Nunca(msg) == FALSE

\* the handler's test for "duplicated case number"
EsDuplicado(msg) == msg.numero_caso \/ msg.unique_constraint

\* request q goes on as q2
Reemplazar(q, q2) == (solicitudes (-) SetToBag({q})) (+) SetToBag({q2})

Activas == BagToSet(solicitudes)

\* the call is made (at most n calls in one behaviour)
Llamar(n, tipo, datos, maxi) ==
    /\ BagCardinality(solicitudes) < n
    /\ solicitudes' = solicitudes (+) SetToBag({NuevaSolicitud(tipo, datos, maxi)})
    /\ UNCHANGED <<casos, next_id, reloj, n_act, http_act, fmt, consulta>>

\* for intento in range(max_intentos): try: with next(get_database_session())
IniciarIntento(q) ==
    /\ q.pc = "loop"
    /\ q.intento < q.max_intentos
    /\ solicitudes' = Reemplazar(q, [q EXCEPT !.pc = "generar",
                                              !.db = AbrirSesion])
    /\ UNCHANGED <<casos, next_id, reloj, n_act, http_act, fmt, consulta>>

\* the loop ends without having returned or raised: the raise after it
FinBucle(q) ==
    /\ q.pc = "loop"
    /\ ~(q.intento < q.max_intentos)
    /\ solicitudes' = Reemplazar(q, [q EXCEPT !.pc = "fin",
           !.resultado = [clase |-> "inesperado", status_code |-> 500, id |-> 0]])
    /\ UNCHANGED <<casos, next_id, reloj, n_act, http_act, fmt, consulta>>

\* generar_numero_caso in a session of its own, formatear_numero_caso,
\* Caso.from_pydantic, db.add
Generar(q) ==
    /\ q.pc = "generar"
    /\ LET par == generar_numero_caso(casos, q.caso_data.tipo, reloj)
           completo == formatear_numero_caso(q.caso_data.tipo, par[1], par[2])
       IN  solicitudes' = Reemplazar(q, [q EXCEPT
               !.pc = "commit",
               !.candidato = from_pydantic(q.caso_data, par[1], par[2], completo),
               !.db_gen = SalirWith(Ejecutar(AbrirSesion))])
    /\ UNCHANGED <<casos, next_id, reloj, n_act, http_act, fmt, consulta>>

\* the generator's query raises: both with blocks are left, and
\* except Exception raises HTTP 500
GenerarFalla(q) ==
    /\ q.pc = "generar"
    /\ solicitudes' = Reemplazar(q, [q EXCEPT
           !.pc = "fin",
           !.db_gen = SalirWith(Ejecutar(AbrirSesion)),
           !.db = SalirWith(q.db),
           !.resultado = [clase |-> "error", status_code |-> 500, id |-> 0]])
    /\ UNCHANGED <<casos, next_id, reloj, n_act, http_act, fmt, consulta>>

\* db.commit() stores the row; db.refresh and the response conversion
\* without db.commit(): the session closes and the pending row is discarded,
\* the call returns the case
CommitExito_SinCommit(q) ==
    /\ q.pc = "commit"
    /\ ~ViolaUnico(casos, q.candidato)
    /\ next_id' = next_id + 1
    /\ solicitudes' = Reemplazar(q, [q EXCEPT
           !.pc = "fin",
           !.n_insert = @ + 1,
           !.insertado = next_id,
           !.db = SalirWith(Ejecutar(Ejecutar(q.db))),
           !.resultado = [clase |-> "exito", status_code |-> 0, id |-> next_id]])
    /\ UNCHANGED <<casos, reloj, n_act, http_act, fmt, consulta>>

\* succeed and the call returns the persisted case
CommitExito(q) ==
    /\ q.pc = "commit"
    /\ ~ViolaUnico(casos, q.candidato)
    /\ casos' = casos \cup {Fila(q.candidato, next_id, reloj)}
    /\ next_id' = next_id + 1
    /\ solicitudes' = Reemplazar(q, [q EXCEPT
           !.pc = "fin",
           !.n_insert = @ + 1,
           !.insertado = next_id,
           !.db = SalirWith(Ejecutar(Ejecutar(q.db))),
           !.resultado = [clase |-> "exito", status_code |-> 0, id |-> next_id]])
    /\ UNCHANGED <<reloj, n_act, http_act, fmt, consulta>>

\* db.commit() stores the row, then db.refresh or the response conversion
\* raises: except Exception raises HTTP 500
CommitExitoRespuestaFalla(q) ==
    /\ q.pc = "commit"
    /\ ~ViolaUnico(casos, q.candidato)
    /\ casos' = casos \cup {Fila(q.candidato, next_id, reloj)}
    /\ next_id' = next_id + 1
    /\ solicitudes' = Reemplazar(q, [q EXCEPT
           !.pc = "fin",
           !.n_insert = @ + 1,
           !.insertado = next_id,
           !.db = SalirWith(Ejecutar(Ejecutar(q.db))),
           !.resultado = [clase |-> "error", status_code |-> 500, id |-> 0]])
    /\ UNCHANGED <<reloj, n_act, http_act, fmt, consulta>>

\* a handler that gives up at the first duplicate
ManejarIntegrityError_SinReintento(q1, msg) ==
    IF EsDuplicado(msg)
    THEN [q1 EXCEPT !.pc = "fin",
             !.resultado = [clase |-> "agotado", status_code |-> 500, id |-> 0]]
    ELSE [q1 EXCEPT !.pc = "fin",
             !.resultado = [clase |-> "integridad", status_code |-> 500, id |-> 0]]

\* a handler that compares the attempt with max_intentos, not max_intentos - 1
ManejarIntegrityError_UnoDeMas(q1, msg) ==
    IF EsDuplicado(msg)
    THEN IF q1.intento < q1.max_intentos
         THEN Dormir(q1)
         ELSE [q1 EXCEPT !.pc = "fin",
                  !.resultado = [clase |-> "agotado", status_code |-> 500, id |-> 0]]
    ELSE [q1 EXCEPT !.pc = "fin",
             !.resultado = [clase |-> "integridad", status_code |-> 500, id |-> 0]]

\* except IntegrityError as e, for an error whose text is msg: what becomes
\* of request q1, whose with block has been left
ManejarIntegrityError(q1, msg) ==
    IF EsDuplicado(msg)
    THEN IF q1.intento < q1.max_intentos - 1
         THEN Dormir(q1)
         ELSE [q1 EXCEPT !.pc = "fin",
                  !.resultado = [clase |-> "agotado", status_code |-> 500, id |-> 0]]
    ELSE [q1 EXCEPT !.pc = "fin",
             !.resultado = [clase |-> "integridad", status_code |-> 500, id |-> 0]]

\* db.commit() violates the unique index on numero_caso_completo: rollback,
\* the session is closed, then the handler
CommitDuplicado(q) ==
    /\ q.pc = "commit"
    /\ ViolaUnico(casos, q.candidato)
    /\ solicitudes' = Reemplazar(q, ManejarIntegrityError(
           [q EXCEPT !.n_insert = @ + 1, !.n_dup = @ + 1,
                     !.db = SalirWith(Ejecutar(q.db))],
           MensajeDuplicado))
    /\ UNCHANGED <<casos, next_id, reloj, n_act, http_act, fmt, consulta>>

\* db.commit() raises an IntegrityError that is not about the case number
\* (another constraint of the table), with text msg
CommitOtraIntegridad(q, msg) ==
    /\ q.pc = "commit"
    /\ solicitudes' = Reemplazar(q, ManejarIntegrityError(
           [q EXCEPT !.n_insert = @ + 1, !.db = SalirWith(Ejecutar(q.db))],
           msg))
    /\ UNCHANGED <<casos, next_id, reloj, n_act, http_act, fmt, consulta>>

\* db.commit() raises an exception that is not an IntegrityError
CommitFalla(q) ==
    /\ q.pc = "commit"
    /\ solicitudes' = Reemplazar(q, [q EXCEPT
           !.pc = "fin",
           !.n_insert = @ + 1,
           !.db = SalirWith(Ejecutar(q.db)),
           !.resultado = [clase |-> "error", status_code |-> 500, id |-> 0]])
    /\ UNCHANGED <<casos, next_id, reloj, n_act, http_act, fmt, consulta>>

\* time.sleep returns; continue: the next value of range(max_intentos)
Despertar(q) ==
    /\ q.pc = "sleep"
    /\ solicitudes' = Reemplazar(q, [q EXCEPT !.pc = "loop", !.intento = @ + 1])
    /\ UNCHANGED <<casos, next_id, reloj, n_act, http_act, fmt, consulta>>

(***************************************************************************)
(* actualizar_caso_existente                                               *)
(***************************************************************************)
\* fecha_creacion assigned along with fecha_actualizacion
AplicarActualizacion_TocaCreacion(c, estado, respuesta, t) ==
    [c EXCEPT !.estado = IF estado # NULL THEN estado ELSE @,
              !.respuesta = IF respuesta # NULL THEN respuesta ELSE @,
              !.fecha_creacion = t,
              !.fecha_actualizacion = t]

\* respuesta assigned whether provided or not
AplicarActualizacion_Sobrescribe(c, estado, respuesta, t) ==
    [c EXCEPT !.estado = IF estado # NULL THEN estado ELSE @,
              !.respuesta = respuesta,
              !.fecha_actualizacion = t]

\* the fields of CasoUpdate that are not None are assigned;
\* fecha_actualizacion always
AplicarActualizacion(c, estado, respuesta, t) ==
    [c EXCEPT !.estado = IF estado # NULL THEN estado ELSE @,
              !.respuesta = IF respuesta # NULL THEN respuesta ELSE @,
              !.fecha_actualizacion = t]

\* without the clause that re-raises HTTPException: the 404 is caught by
\* except Exception and leaves as HTTP 500
Actualizar_SinRelanzar(caso_id, estado, respuesta) ==
    /\ n_act < MaxActualizaciones
    /\ n_act' = n_act + 1
    /\ IF \E c \in casos : c.id = caso_id
       THEN /\ casos' = { IF c.id = caso_id
                             THEN AplicarActualizacion(c, estado, respuesta, reloj)
                             ELSE c : c \in casos }
            /\ http_act' = 200
       ELSE /\ http_act' = 500
            /\ UNCHANGED casos
    /\ UNCHANGED <<next_id, reloj, solicitudes, fmt, consulta>>

\* query by id, 404 when there is no such row, else assign, commit
Actualizar(caso_id, estado, respuesta) ==
    /\ n_act < MaxActualizaciones
    /\ n_act' = n_act + 1
    /\ IF \E c \in casos : c.id = caso_id
       THEN /\ casos' = { IF c.id = caso_id
                             THEN AplicarActualizacion(c, estado, respuesta, reloj)
                             ELSE c : c \in casos }
            /\ http_act' = 200
       ELSE /\ http_act' = 404
            /\ UNCHANGED casos
    /\ UNCHANGED <<next_id, reloj, solicitudes, fmt, consulta>>

\* the query or the commit raises: rollback, HTTP 500
ActualizarFalla ==
    /\ n_act < MaxActualizaciones
    /\ n_act' = n_act + 1
    /\ http_act' = 500
    /\ UNCHANGED <<casos, next_id, reloj, solicitudes, fmt, consulta>>

(***************************************************************************)
(* The read-only functions                                                 *)
(***************************************************************************)
Ninguno == <<"N", "i", "n", "g", "u", "n", "o">>

SinEstadisticas ==
    [total_casos      |-> 0,
     casos_por_tipo   |-> [t \in TipoCaso |-> 0],
     casos_por_estado |-> [e \in EstadoCaso |-> 0],
     ultimo_numero    |-> <<>>]

\* no read-only function called yet
SinConsulta ==
    [op           |-> "ninguna",
     excepcion    |-> "ninguna",      \* the type of the exception raised
     status_code  |-> 0,              \* of the HTTPException raised
     filas        |-> <<>>,           \* the ids of the cases returned, in order
     estadisticas |-> SinEstadisticas,
     pendientes   |-> <<>>]          \* queries the call has still to run

\* the function returns the cases of the sequence of rows s
Retorna(op, s) ==
    [SinConsulta EXCEPT !.op = op, !.filas = [i \in 1..Len(s) |-> s[i].id]]

\* the function raises HTTPException(status_code)
LanzaHTTP(op, status_code) ==
    [SinConsulta EXCEPT !.op = op, !.excepcion = "HTTPException",
                        !.status_code = status_code]

\* order_by(Caso.fecha_creacion.desc()).all() over the rows S: any order
\* of them with no row before a newer one
Ordenes(S) ==
    { s \in [1..Cardinality(S) -> S] :
        \A i \in 1..Cardinality(S) : \A j \in 1..Cardinality(S) :
            i < j => s[i] # s[j] /\ s[i].fecha_creacion >= s[j].fecha_creacion }

\* limit(n)
Primeras(s, n) == SubSeq(s, 1, IF n < Len(s) THEN n ELSE Len(s))

Minusculas ==
    <<"a", "b", "c", "d", "e", "f", "g", "h", "i", "j", "k", "l", "m",
      "n", "o", "p", "q", "r", "s", "t", "u", "v", "w", "x", "y", "z">>

Mayusculas ==
    <<"A", "B", "C", "D", "E", "F", "G", "H", "I", "J", "K", "L", "M",
      "N", "O", "P", "Q", "R", "S", "T", "U", "V", "W", "X", "Y", "Z">>

\* str.upper()
upper(s) ==
    [i \in 1..Len(s) |->
        IF \E k \in 1..26 : Minusculas[k] = s[i]
        THEN Mayusculas[CHOOSE k \in 1..26 : Minusculas[k] = s[i]]
        ELSE s[i]]

RECURSIVE strip(_)
\* str.strip()
strip(s) ==
    IF s = <<>> THEN s
    ELSE IF Head(s) = " " THEN strip(Tail(s))
    ELSE IF s[Len(s)] = " " THEN strip(SubSeq(s, 1, Len(s) - 1))
    ELSE s

RECURSIVE Like(_, _)
\* s LIKE p: % stands for any string, _ for any one character
Like(s, p) ==
    IF p = <<>> THEN s = <<>>
    ELSE IF Head(p) = "%"
         THEN Like(s, Tail(p)) \/ (s # <<>> /\ Like(Tail(s), p))
         ELSE /\ s # <<>>
              /\ (Head(p) = "_" \/ Head(p) = Head(s))
              /\ Like(Tail(s), Tail(p))

\* the estado filter left out of the query
obtener_casos_filtrados_SoloTipo(tipo, estado) ==
    /\ LET sel == { c \in casos : tipo = NULL \/ c.tipo = tipo }
       IN  \E s \in Ordenes(sel) :
               consulta' = Retorna("obtener_casos_filtrados", s)
    /\ UNCHANGED <<casos, next_id, reloj, solicitudes, n_act, http_act, fmt>>

\* query, filter by tipo and by estado when given, order by fecha_creacion
\* descending, all()
obtener_casos_filtrados(tipo, estado) ==
    /\ LET sel == { c \in casos : /\ (tipo = NULL \/ c.tipo = tipo)
                                  /\ (estado = NULL \/ c.estado = estado) }
       IN  \E s \in Ordenes(sel) :
               consulta' = Retorna("obtener_casos_filtrados", s)
    /\ UNCHANGED <<casos, next_id, reloj, solicitudes, n_act, http_act, fmt>>

obtener_caso_por_id(caso_id) ==
    /\ IF \E c \in casos : c.id = caso_id
       THEN consulta' = Retorna("obtener_caso_por_id",
                                <<CHOOSE c \in casos : c.id = caso_id>>)
       ELSE consulta' = LanzaHTTP("obtener_caso_por_id", 404)
    /\ UNCHANGED <<casos, next_id, reloj, solicitudes, n_act, http_act, fmt>>

\* the last row of the order taken instead of the first
UltimoNumero_MasAntiguo(s) ==
    IF s = <<>> THEN Ninguno
    ELSE formatear_numero_caso(s[Len(s)].tipo, s[Len(s)].numero_caso,
                               s[Len(s)].anio)

\* first() of the rows in the order s, formatted, or "Ninguno"
UltimoNumero(s) ==
    IF s = <<>> THEN Ninguno
    ELSE formatear_numero_caso(s[1].tipo, s[1].numero_caso, s[1].anio)

\* the count queries and the query of the last case, all on one table
obtener_estadisticas_sistema ==
    /\ \E s \in Ordenes(casos) :
           consulta' =
               [SinConsulta EXCEPT
                   !.op = "obtener_estadisticas_sistema",
                   !.estadisticas =
                       [total_casos      |-> Cardinality(casos),
                        casos_por_tipo   |->
                            [t \in TipoCaso |->
                                Cardinality({ c \in casos : c.tipo = t })],
                        casos_por_estado |->
                            [e \in EstadoCaso |->
                                Cardinality({ c \in casos : c.estado = e })],
                        ultimo_numero    |-> UltimoNumero(s)]]
    /\ UNCHANGED <<casos, next_id, reloj, solicitudes, n_act, http_act, fmt>>

\* the argument compared as given, neither trimmed nor upper-cased
\* the order in which the function's loops go through the enumerations
OrdenTipos == <<"PETICION", "QUEJA", "RECLAMO", "SUGERENCIA", "DENUNCIA">>

OrdenEstados == <<"RECIBIDO", "EN_PROCESO", "RESUELTO", "CERRADO">>

\* the queries of obtener_estadisticas_sistema, in the order it runs them
ConsultasEstadisticas ==
    <<[q |-> "total", v |-> NULL]>>
    \o [i \in 1..Len(OrdenTipos) |-> [q |-> "tipo", v |-> OrdenTipos[i]]]
    \o [i \in 1..Len(OrdenEstados) |-> [q |-> "estado", v |-> OrdenEstados[i]]]
    \o <<[q |-> "ultimo", v |-> NULL]>>

\* obtener_estadisticas_sistema query by query, each query reading the
\* table as committed when it runs: the call opens its session
EstIniciar ==
    /\ consulta.op = "ninguna"
    /\ consulta' = [SinConsulta EXCEPT
                       !.op = "obtener_estadisticas_sistema",
                       !.pendientes = ConsultasEstadisticas]
    /\ UNCHANGED <<casos, next_id, reloj, solicitudes, n_act, http_act, fmt>>

\* the call runs its next query; after the last one it returns
EstConsulta ==
    /\ consulta.op = "obtener_estadisticas_sistema"
    /\ consulta.pendientes # <<>>
    /\ LET p == Head(consulta.pendientes)
           e == consulta.estadisticas
       IN  \E s \in Ordenes(IF p.q = "ultimo" THEN casos ELSE {}) :
               consulta' =
                   [consulta EXCEPT
                       !.pendientes = Tail(@),
                       !.estadisticas =
                           IF p.q = "total"
                           THEN [e EXCEPT !.total_casos = Cardinality(casos)]
                           ELSE IF p.q = "tipo"
                           THEN [e EXCEPT !.casos_por_tipo[p.v] =
                                    Cardinality({ c \in casos : c.tipo = p.v })]
                           ELSE IF p.q = "estado"
                           THEN [e EXCEPT !.casos_por_estado[p.v] =
                                    Cardinality({ c \in casos : c.estado = p.v })]
                           ELSE [e EXCEPT !.ultimo_numero = UltimoNumero(s)]]
    /\ UNCHANGED <<casos, next_id, reloj, solicitudes, n_act, http_act, fmt>>

buscar_caso_por_numero_completo_SinNormalizar(numero_caso_completo) ==
    /\ IF strip(numero_caso_completo) = <<>>
       THEN consulta' = LanzaHTTP("buscar_caso_por_numero_completo", 400)
       ELSE LET hallados == { c \in casos :
                                c.numero_caso_completo = numero_caso_completo }
            IN  IF hallados = {}
                THEN consulta' = LanzaHTTP("buscar_caso_por_numero_completo", 404)
                ELSE \E c \in hallados :
                         consulta' = Retorna("buscar_caso_por_numero_completo",
                                             <<c>>)
    /\ UNCHANGED <<casos, next_id, reloj, solicitudes, n_act, http_act, fmt>>

\* 400 on a blank argument, else first() of the rows whose
\* numero_caso_completo is the argument trimmed and upper-cased, 404 when
\* there is none
buscar_caso_por_numero_completo(numero_caso_completo) ==
    /\ IF strip(numero_caso_completo) = <<>>
       THEN consulta' = LanzaHTTP("buscar_caso_por_numero_completo", 400)
       ELSE LET numero_normalizado == upper(strip(numero_caso_completo))
                hallados == { c \in casos :
                                c.numero_caso_completo = numero_normalizado }
            IN  IF hallados = {}
                THEN consulta' = LanzaHTTP("buscar_caso_por_numero_completo", 404)
                ELSE \E c \in hallados :
                         consulta' = Retorna("buscar_caso_por_numero_completo",
                                             <<c>>)
    /\ UNCHANGED <<casos, next_id, reloj, solicitudes, n_act, http_act, fmt>>

buscar_casos_por_patron_numero(patron, limite) ==
    /\ IF strip(patron) = <<>>
       THEN consulta' = LanzaHTTP("buscar_casos_por_patron_numero", 400)
       ELSE LET patron_normalizado == upper(strip(patron))
                hallados == { c \in casos :
                                Like(c.numero_caso_completo,
                                     <<"%">> \o patron_normalizado \o <<"%">>) }
            IN  \E s \in Ordenes(hallados) :
                    consulta' = Retorna("buscar_casos_por_patron_numero",
                                        Primeras(s, limite))
    /\ UNCHANGED <<casos, next_id, reloj, solicitudes, n_act, http_act, fmt>>

OperacionesLectura ==
    {"obtener_casos_filtrados", "obtener_caso_por_id",
     "obtener_estadisticas_sistema", "buscar_caso_por_numero_completo",
     "buscar_casos_por_patron_numero"}

\* without the except Exception clause: the exception of the storage layer
\* leaves the function as it is
ConsultaFalla_SinCapturar(op) ==
    /\ consulta' = [SinConsulta EXCEPT !.op = op, !.excepcion = "Exception"]
    /\ UNCHANGED <<casos, next_id, reloj, solicitudes, n_act, http_act, fmt>>

\* the session, the query or the conversion of the result raises: except
\* Exception raises HTTP 500
ConsultaFalla(op) ==
    /\ consulta' = LanzaHTTP(op, 500)
    /\ UNCHANGED <<casos, next_id, reloj, solicitudes, n_act, http_act, fmt>>

(***************************************************************************)
(* Time passes                                                             *)
(***************************************************************************)
Tick ==
    /\ reloj < MaxReloj
    /\ reloj' = reloj + 1
    /\ UNCHANGED <<casos, next_id, solicitudes, n_act, http_act, fmt, consulta>>

(***************************************************************************)
(* Specifications                                                          *)
(***************************************************************************)
\* formatear_numero_caso not called
SinFormato == [tipo |-> NULL, numero_caso |-> 0, anio |-> 0, salida |-> <<>>]

\* the state before any request, the table holding the rows of `seq`
InitCon(seq) ==
    /\ casos = FilasSemilla(seq)
    /\ next_id = Len(seq) + 1
    /\ reloj = 0
    /\ solicitudes = EmptyBag
    /\ n_act = 0
    /\ http_act = 0
    /\ fmt = SinFormato
    /\ consulta = SinConsulta

\* General specification: requests for any of TiposArg with max_intentos in
\* IntentosArg, storage failures, the clock.
TiposArg == {"PETICION", "RECLAMO"}

IntentosArg == {0, 1, 2}

DatosArg == {"d1"}

EstadosArg == EstadoCaso \cup {NULL}

RespuestasArg == {"r1", NULL}

SemillasSpec ==
    { <<>>,
      << <<"PETICION", AnioInicial, 1>>, <<"PETICION", AnioInicial, 2>>,
         <<"PETICION", AnioInicial, 5>>, <<"RECLAMO", AnioInicial + 1, 1>> >> }

Init == \E seq \in SemillasSpec : InitCon(seq)

Next ==
    \/ \E tipo \in TiposArg, datos \in DatosArg, maxi \in IntentosArg :
           Llamar(NumReq, tipo, datos, maxi)
    \/ \E q \in Activas : IniciarIntento(q)
    \/ \E q \in Activas : FinBucle(q)
    \/ \E q \in Activas : Generar(q)
    \/ \E q \in Activas : GenerarFalla(q)
    \/ \E q \in Activas : CommitExito(q)
    \/ \E q \in Activas : CommitExitoRespuestaFalla(q)
    \/ \E q \in Activas : CommitDuplicado(q)
    \/ \E q \in Activas, msg \in Mensajes : CommitOtraIntegridad(q, msg)
    \/ \E q \in Activas : CommitFalla(q)
    \/ \E q \in Activas : Despertar(q)
    \/ Tick

Spec == Init /\ [][Next]_vars

\* Creations and updates: requests for PETICION with max_intentos 1 or 2,
\* storage failing only in updates, and up to MaxActCarrera calls of
\* actualizar_caso_existente, within one year.
InitAct == InitCon(<< <<"PETICION", AnioInicial, 1>> >>)

NextAct ==
    \/ \E maxi \in {1, 2} : Llamar(NumReqAct, "PETICION", "d1", maxi)
    \/ \E q \in Activas : IniciarIntento(q)
    \/ \E q \in Activas : Generar(q)
    \/ \E q \in Activas : CommitExito(q)
    \/ \E q \in Activas : CommitDuplicado(q)
    \/ \E q \in Activas : Despertar(q)
    \/ \E id \in 1..next_id, e \in EstadosArg, rta \in RespuestasArg :
           n_act < MaxActCarrera /\ Actualizar(id, e, rta)
    \/ n_act < MaxActCarrera /\ ActualizarFalla

SpecAct == InitAct /\ [][NextAct]_vars

\* The life of a case: up to NumReqVida requests for PETICION, up to
\* MaxActualizaciones calls of actualizar_caso_existente with any id, estado
\* and respuesta, storage failing only in updates, the clock.
NextVida ==
    \/ Llamar(NumReqVida, "PETICION", "d1", 1)
    \/ \E q \in Activas : IniciarIntento(q)
    \/ \E q \in Activas : Generar(q)
    \/ \E q \in Activas : CommitExito(q)
    \/ \E id \in 1..next_id, e \in EstadosArg, rta \in RespuestasArg :
           Actualizar(id, e, rta)
    \/ ActualizarFalla
    \/ Tick

SpecVida == InitAct /\ [][NextVida]_vars

\* Termination: up to NumReqFin requests for PETICION with max_intentos in
\* IntentosArg, storage failures, within one year; every request that can
\* take a step eventually takes one (the server schedules its threads
\* fairly, storage operations and time.sleep return).
PasoDeSolicitud ==
    \E q \in Activas :
        \/ IniciarIntento(q)
        \/ FinBucle(q)
        \/ Generar(q)
        \/ GenerarFalla(q)
        \/ CommitExito(q)
        \/ CommitExitoRespuestaFalla(q)
        \/ CommitDuplicado(q)
        \/ (\E msg \in Mensajes : CommitOtraIntegridad(q, msg))
        \/ CommitFalla(q)
        \/ Despertar(q)

NextFin ==
    \/ \E maxi \in IntentosArg : Llamar(NumReqFin, "PETICION", "d1", maxi)
    \/ \E q \in Activas : IniciarIntento(q)
    \/ \E q \in Activas : FinBucle(q)
    \/ \E q \in Activas : Generar(q)
    \/ \E q \in Activas : GenerarFalla(q)
    \/ \E q \in Activas : CommitExito(q)
    \/ \E q \in Activas : CommitExitoRespuestaFalla(q)
    \/ \E q \in Activas : CommitDuplicado(q)
    \/ \E q \in Activas, msg \in Mensajes : CommitOtraIntegridad(q, msg)
    \/ \E q \in Activas : CommitFalla(q)
    \/ \E q \in Activas : Despertar(q)

SpecFin == InitAct /\ [][NextFin]_vars /\ WF_vars(PasoDeSolicitud)

\* All the operations of the service, one call after another: up to
\* NumReqServ requests for PETICION with one attempt, each called when the
\* one before has ended (so no insert meets a duplicate), storage failures,
\* up to MaxActCarrera updates, the read-only functions, the clock.  The
\* outcome of a read-only call is handed to the caller (Responder) before
\* the next call starts.
FiltrosTipo == {NULL, "PETICION", "QUEJA"}

FiltrosEstado == {NULL, "CERRADO"}

NumerosArg ==
    { <<>>, <<" ">>,
      <<" ", "p", "e", "t", "-", "2", "0", "2", "5", "-", "0", "0", "0", "2", " ">>,
      <<"R", "E", "C", "-", "2", "0", "2", "5", "-", "0", "0", "0", "1">> }

PatronesArg ==
    { <<>>, <<"-", "0", "0", "0", "2">>,
      <<"p", "e", "t", "_", "2", "0", "2", "5">>, <<"Q", "U", "E">> }

LimitesArg == {1, LimiteDefault}

\* the endpoint hands the outcome of the read-only call to the client
Responder ==
    /\ consulta.op # "ninguna"
    /\ consulta' = SinConsulta
    /\ UNCHANGED <<casos, next_id, reloj, solicitudes, n_act, http_act, fmt>>

\* no call is in progress
Ocioso == consulta.op = "ninguna" /\ \A q \in Activas : q.pc = "fin"

NextServ ==
    \/ Ocioso /\ Llamar(NumReqServ, "PETICION", "d1", 1)
    \/ \E q \in Activas : IniciarIntento(q)
    \/ \E q \in Activas : Generar(q)
    \/ \E q \in Activas : GenerarFalla(q)
    \/ \E q \in Activas : CommitExito(q)
    \/ \E q \in Activas : CommitExitoRespuestaFalla(q)
    \/ \E q \in Activas, msg \in Mensajes : CommitOtraIntegridad(q, msg)
    \/ \E q \in Activas : CommitFalla(q)
    \/ \E id \in 1..next_id, e \in {NULL, "CERRADO"}, rta \in RespuestasArg :
           Ocioso /\ n_act < MaxActCarrera /\ Actualizar(id, e, rta)
    \/ Ocioso /\ n_act < MaxActCarrera /\ ActualizarFalla
    \/ \E tipo \in FiltrosTipo, estado \in FiltrosEstado :
           Ocioso /\ obtener_casos_filtrados(tipo, estado)
    \/ \E id \in 1..next_id : Ocioso /\ obtener_caso_por_id(id)
    \/ Ocioso /\ obtener_estadisticas_sistema
    \/ \E numero \in NumerosArg :
           Ocioso /\ buscar_caso_por_numero_completo(numero)
    \/ \E patron \in PatronesArg, limite \in LimitesArg :
           Ocioso /\ buscar_casos_por_patron_numero(patron, limite)
    \/ \E op \in OperacionesLectura : Ocioso /\ ConsultaFalla(op)
    \/ Responder
    \/ consulta.op = "ninguna" /\ Tick

\* the table empty or holding one PETICION
SemillasServ == { <<>>, << <<"PETICION", AnioInicial, 1>> >> }

InitServ == \E seq \in SemillasServ : InitCon(seq)

SpecServ == InitServ /\ [][NextServ]_vars

\* The statistics next to the writers: one call of
\* obtener_estadisticas_sistema running query by query while up to
\* NumReqVida requests for PETICION and up to MaxActCarrera updates commit.
NextEst ==
    \/ Llamar(NumReqVida, "PETICION", "d1", 1)
    \/ \E q \in Activas : IniciarIntento(q)
    \/ \E q \in Activas : Generar(q)
    \/ \E q \in Activas : CommitExito(q)
    \/ \E id \in 1..next_id, e \in {NULL, "CERRADO"}, rta \in RespuestasArg :
           n_act < MaxActCarrera /\ Actualizar(id, e, rta)
    \/ EstIniciar
    \/ EstConsulta

SpecEst == InitAct /\ [][NextEst]_vars

\* The same-bucket race: up to NumConc requests for RECLAMO with the default
\* max_intentos, within one year, storage never failing, the bucket holding
\* the numbers 1..3.
SemillaConc ==
    << <<"RECLAMO", AnioInicial, 1>>, <<"RECLAMO", AnioInicial, 2>>,
       <<"RECLAMO", AnioInicial, 3>> >>

InitConc == InitCon(SemillaConc)

NextConc ==
    \/ Llamar(NumConc, "RECLAMO", "d1", MaxIntentosDefault)
    \/ \E q \in Activas : IniciarIntento(q)
    \/ \E q \in Activas : Generar(q)
    \/ \E q \in Activas : CommitExito(q)
    \/ \E q \in Activas : CommitDuplicado(q)
    \/ \E q \in Activas : Despertar(q)

SpecConc == InitConc /\ [][NextConc]_vars

\* formatear_numero_caso on its own: every type, 4-digit years, numbers
\* 1..MaxNumeroFmt and numbers around each change of width.
NumerosFmt ==
    (1..MaxNumeroFmt) \cup {99, 100, 999, 1000, 9999, 10000, 10001, 99999,
                            100000, 123456}

AniosFmt == {1000, 1999, 2024, 2025, 9999}

InitFmt ==
    /\ casos = {}
    /\ next_id = 1
    /\ reloj = 0
    /\ solicitudes = EmptyBag
    /\ n_act = 0
    /\ http_act = 0
    /\ fmt \in [tipo : TipoCaso, numero_caso : NumerosFmt, anio : AniosFmt,
                 salida : {<<>>}]
    /\ consulta = SinConsulta

Formatear ==
    /\ fmt.salida = <<>>
    /\ fmt' = [fmt EXCEPT !.salida =
                   formatear_numero_caso(fmt.tipo, fmt.numero_caso, fmt.anio)]
    /\ UNCHANGED <<casos, next_id, reloj, solicitudes, n_act, http_act, consulta>>

NextFmt == Formatear

SpecFmt == InitFmt /\ [][NextFmt]_vars

\* parsear_numero_caso on the formatter's output and on other strings
\* parsear_numero_caso not called
SinParseo ==
    [excepcion |-> "ninguna", status_code |-> 0,
     tipo |-> NULL, anio |-> 0, numero |-> 0]

CadenasArg ==
    { <<>>,
      <<"P", "E", "T">>,
      <<"P", "E", "T", "-", "2", "0", "2", "5">>,
      <<"P", "E", "T", "-", "2", "0", "2", "5", "-", "0", "0", "0", "1", "-", "1">>,
      <<"A", "B", "C", "-", "2", "0", "2", "5", "-", "0", "0", "0", "1">>,
      <<"p", "e", "t", "-", "2", "0", "2", "5", "-", "0", "0", "0", "1">>,
      <<"P", "E", "T", "-", "2", "0", "x", "5", "-", "0", "0", "0", "1">>,
      <<"P", "E", "T", "-", "2", "0", "2", "5", "-", "0", "0", "a", "1">>,
      <<"P", "E", "T", "-", "2", "0", "2", "5", "-">>,
      <<"P", "E", "T", "-", "-", "0", "0", "0", "1">>,
      <<"P", "E", "T", "-", "2", "0", "2", "5", "-", "1", ".", "5">>,
      <<"P", "E", "T", "-", "2", "0", "2", "5", "-", "7">>,
      <<"Q", "U", "E", "-", " ", "2", "0", "2", "5", "-", "+", "1", "_", "0">> }

InitPar ==
    /\ casos = {}
    /\ next_id = 1
    /\ reloj = 0
    /\ solicitudes = EmptyBag
    /\ n_act = 0
    /\ http_act = 0
    /\ fmt \in [tipo : TipoCaso, numero_caso : NumerosFmt, anio : AniosFmt,
                 salida : {<<>>}, entrada : {<<>>}, parseo : {SinParseo}]
    /\ consulta = SinConsulta

\* the formatter's output given to the parser
ParsearFormateado ==
    /\ fmt.salida # <<>>
    /\ fmt.parseo = SinParseo
    /\ fmt' = [fmt EXCEPT !.entrada = fmt.salida,
                          !.parseo = parsear_numero_caso(fmt.salida)]
    /\ UNCHANGED <<casos, next_id, reloj, solicitudes, n_act, http_act, consulta>>

\* another string given to the parser
ParsearCadena(cadena) ==
    /\ fmt.salida = <<>>
    /\ fmt.parseo = SinParseo
    /\ fmt' = [fmt EXCEPT !.entrada = cadena,
                          !.parseo = parsear_numero_caso(cadena)]
    /\ UNCHANGED <<casos, next_id, reloj, solicitudes, n_act, http_act, consulta>>

NextPar ==
    \/ fmt.parseo = SinParseo /\ Formatear
    \/ ParsearFormateado
    \/ \E cadena \in CadenasArg : ParsearCadena(cadena)

SpecPar == InitPar /\ [][NextPar]_vars

(***************************************************************************)
(* Properties                                                              *)
(***************************************************************************)
ValorDigito ==
    "0" :> 0 @@ "1" :> 1 @@ "2" :> 2 @@ "3" :> 3 @@ "4" :> 4 @@
    "5" :> 5 @@ "6" :> 6 @@ "7" :> 7 @@ "8" :> 8 @@ "9" :> 9

EsNumeral(s) == Len(s) > 0 /\ \A i \in 1..Len(s) : s[i] \in DOMAIN ValorDigito

RECURSIVE ValorNumeral(_)
\* the number a string of decimal digits denotes
ValorNumeral(s) ==
    IF Len(s) = 0 THEN 0
    ELSE 10 * ValorNumeral(SubSeq(s, 1, Len(s) - 1)) + ValorDigito[s[Len(s)]]

CodigoDeTipo ==
    "PETICION" :> <<"P", "E", "T">> @@ "QUEJA" :> <<"Q", "U", "E">> @@
    "RECLAMO" :> <<"R", "E", "C">> @@ "SUGERENCIA" :> <<"S", "U", "G">> @@
    "DENUNCIA" :> <<"D", "E", "N">>

\* the row of the table with primary key id
FilaDe(id) == CHOOSE c \in casos : c.id = id

\* C1: in every reachable state of the store, under any interleaving of
\* creations (with their retries) and updates, two distinct committed rows
\* never have the same numero_caso_completo nor the same
\* (tipo, anio, numero_caso).
C1_NumerosUnicos ==
    \A c1 \in casos : \A c2 \in casos :
        c1 # c2 =>
            /\ c1.id # c2.id
            /\ c1.numero_caso_completo # c2.numero_caso_completo
            /\ <<c1.tipo, c1.anio, c1.numero_caso>>
                   # <<c2.tipo, c2.anio, c2.numero_caso>>

\* two requests have stored their rows, one of them after a collision, and a
\* row has been updated
C1_Testigo ==
    /\ Cardinality(casos) >= 3
    /\ \E q \in Activas : q.n_dup >= 1 /\ q.insertado # 0
    /\ http_act = 200
    /\ \E c \in casos : c.estado # "RECIBIDO"

C7_SinSesionAlDormir ==
    \A q \in Activas :
        q.pc = "sleep" =>
            /\ q.db = "cerrada"
            /\ q.db_gen = "cerrada"
            /\ q.insertado = 0

\* a request sleeps after a collision
C7_Testigo ==
    \E q \in Activas : q.pc = "sleep" /\ q.n_dup = 1 /\ q.n_sleep = 1

\* the rows of one (tipo, anio)
Cubeta(tipo, anio) == { c \in casos : c.tipo = tipo /\ c.anio = anio }

\* C8: for every type and every content of the table generar_numero_caso
\* returns (m + 1, current year), m the greatest numero_caso of the rows of
\* that type and year, and (1, current year) when there is none; gaps are
\* ignored ({1, 2, 5} gives 6); the call leaves the table and the key
\* sequence as they were.
C8_Generador ==
    /\ [](\A tipo \in TipoCaso :
            LET par == generar_numero_caso(casos, tipo, reloj)
                b   == Cubeta(tipo, AnioInicial + (reloj \div TicksPorAnio))
            IN  /\ par[2] = AnioInicial + (reloj \div TicksPorAnio)
                /\ par[1] >= 1
                /\ \A c \in b : c.numero_caso < par[1]
                /\ par[1] = 1 \/ \E c \in b : c.numero_caso = par[1] - 1
                /\ b = {} => par[1] = 1
                /\ { c.numero_caso : c \in b } = {1, 2, 5} => par[1] = 6)
    /\ [][\A q \in Activas :
             Generar(q) =>
                 /\ casos' = casos
                 /\ next_id' = next_id
                 /\ \E q2 \in BagToSet(solicitudes') :
                        /\ solicitudes' = Reemplazar(q, q2)
                        /\ \A c \in Cubeta(q.caso_data.tipo, q2.candidato.anio) :
                               c.numero_caso < q2.candidato.numero_caso]_vars

\* a request has read 6 from a bucket holding 1, 2 and 5
C8_Testigo ==
    /\ { c.numero_caso : c \in Cubeta("PETICION", AnioInicial) } = {1, 2, 5}
    /\ \E q \in Activas :
           /\ q.pc = "commit"
           /\ q.caso_data.tipo = "PETICION"
           /\ q.candidato.numero_caso = 6
           /\ q.candidato.anio = AnioInicial

C5_FalloInmediato ==
    [][\A q \in Activas :
          ((\E msg \in Mensajes : CommitOtraIntegridad(q, msg)) \/ CommitFalla(q)) =>
              \E q2 \in BagToSet(solicitudes') :
                  /\ solicitudes' = Reemplazar(q, q2)
                  /\ q2.pc = "fin"
                  /\ q2.resultado.status_code = 500
                  /\ q2.n_sleep = q.n_sleep]_vars

\* the requests that returned a case
Exitosas == { q \in Activas : q.resultado.clase = "exito" }

\* the rows the requests have stored
FilasNuevas == { c \in casos : \E q \in Activas : q.insertado = c.id }

TodasTerminadas ==
    solicitudes # EmptyBag /\ \A q \in Activas : q.pc = "fin"

C3_CuatroYCinco ==
    (TodasTerminadas /\ BagCardinality(solicitudes) = 2) =>
        /\ Exitosas = Activas
        /\ Cardinality(FilasNuevas) = 2
        /\ { c.numero_caso : c \in FilasNuevas } = {4, 5}
        /\ { c.numero_caso_completo : c \in FilasNuevas }
               = { <<"R", "E", "C", "-", "2", "0", "2", "5", "-", "0", "0", "0", "4">>,
                   <<"R", "E", "C", "-", "2", "0", "2", "5", "-", "0", "0", "0", "5">> }
        /\ \A c \in FilasNuevas : c.tipo = "RECLAMO" /\ c.anio = AnioInicial

\* two requests have completed, the second after colliding with the first
C3_Testigo ==
    /\ TodasTerminadas
    /\ BagCardinality(solicitudes) = 2
    /\ \E q \in Activas : q.n_dup = 1 /\ q.resultado.clase = "exito"

\* C4: a call whose max_intentos insert attempts have all failed with the
\* uniqueness violation has made exactly max_intentos attempts, has raised
\* the generation-exhausted error (HTTP 500), has stored no row, and has
\* slept only between attempts: no write and no sleep follows the last
\* failure.
C4_Agotado ==
    \A q \in Activas :
        (q.max_intentos >= 1 /\ q.n_dup = q.max_intentos) =>
            /\ q.pc = "fin"
            /\ q.resultado = [clase |-> "agotado", status_code |-> 500, id |-> 0]
            /\ q.n_insert = q.max_intentos
            /\ q.n_sleep = q.max_intentos - 1
            /\ q.insertado = 0
            /\ q.db = "cerrada"
            /\ Cardinality(casos)
                   = Len(SemillaConc) + Cardinality({ r \in Activas : r.insertado # 0 })

\* a call has collided on all five attempts
C4_Testigo ==
    \E q \in Activas :
        /\ q.n_dup = MaxIntentosDefault
        /\ q.resultado.clase = "agotado"
        /\ q.n_sleep = MaxIntentosDefault - 1

C11_Termina ==
    /\ [](\A q \in Activas :
            q.max_intentos >= 1 =>
                /\ q.n_insert <= q.max_intentos
                /\ q.n_sleep <= q.max_intentos - 1
                /\ q.resultado.clase # "inesperado"
                /\ q.pc = "fin" <=> q.resultado.clase # "ninguno"
                /\ q.pc = "fin" =>
                       /\ q.resultado.clase
                              \in {"exito", "agotado", "integridad", "error"}
                       /\ q.resultado.clase = "exito" <=>
                              q.resultado.status_code # 500
                       /\ q.resultado.clase = "exito" =>
                              \E c \in casos : c.id = q.resultado.id)
    /\ (\E q \in Activas : q.pc # "fin") ~> (\A q \in Activas : q.pc = "fin")

\* two calls have ended, one exhausted after a sleep and a collision on its
\* last attempt, and one with its case stored
C11_Testigo ==
    /\ TodasTerminadas
    /\ \E q \in Activas :
           q.resultado.clase = "agotado" /\ q.max_intentos = 2 /\ q.n_sleep = 1
    /\ \E q \in Activas : q.resultado.clase = "exito"

\* the base delays of the documented schedule, by attempt: 1, 2, 4, 8 seconds
BasesEsperadas == <<1, 2, 4, 8>>

\* their running totals, by number of sleeps made
TotalesEsperados == <<0, 1, 3, 7, 15>>

FilaNuevaDe(id) == CHOOSE c \in casos' : c.id = id

\* C13: for every existing case, an update with only estado provided
\* leaves respuesta as it was, one with only respuesta provided leaves
\* estado as it was, one with neither leaves both; in all three
\* fecha_actualizacion becomes the time of the update.
C13_MarcoActualizacion ==
    [][\A c \in casos : \A e \in EstadosArg, rta \in RespuestasArg :
          (Actualizar(c.id, e, rta) /\ (e = NULL \/ rta = NULL)) =>
              /\ \E c2 \in casos' : c2.id = c.id
              /\ rta = NULL => FilaNuevaDe(c.id).respuesta = c.respuesta
              /\ e = NULL => FilaNuevaDe(c.id).estado = c.estado
              /\ FilaNuevaDe(c.id).fecha_actualizacion = reloj
              /\ http_act' = 200]_vars

\* a case that has its respuesta has been updated twice, the second time
\* later than its creation
C13_Testigo ==
    /\ n_act = 2
    /\ http_act = 200
    /\ \E c \in casos :
           /\ c.respuesta = "r1"
           /\ c.estado = "RESUELTO"
           /\ c.fecha_actualizacion > c.fecha_creacion

\* C14: an update with an id that matches no case raises HTTP 404 and
\* leaves the table as it was: no row added, no field of any row changed.
C14_NoEncontrado ==
    [][\A id \in 1..next_id : \A e \in EstadosArg, rta \in RespuestasArg :
          (Actualizar(id, e, rta) /\ ~\E c \in casos : c.id = id) =>
              /\ http_act' = 404
              /\ casos' = casos
              /\ next_id' = next_id]_vars

\* an update has ended with 404 after an update that changed a case
C14_Testigo ==
    /\ http_act = 404
    /\ n_act = 2
    /\ \E c \in casos : c.estado = "CERRADO" /\ c.respuesta = "r1"

\* the fields of a row that are set when the case is created
CamposDeCreacion(c) ==
    <<c.id, c.numero_caso, c.anio, c.numero_caso_completo, c.tipo, c.datos,
      c.fecha_creacion>>

\* C15: for every stored case and every step of any sequence of service
\* operations (create, update, list, lookups, search, statistics), the case
\* is still stored after the step with the id, numero_caso, anio,
\* numero_caso_completo, tipo, asunto, descripcion, requester fields and
\* fecha_creacion it had; its estado, respuesta and fecha_actualizacion
\* change only in a step of actualizar_caso_existente called with its id.
C15_CamposDeCreacion ==
    [][\A c \in casos :
          \E c2 \in casos' :
              /\ c2.id = c.id
              /\ CamposDeCreacion(c2) = CamposDeCreacion(c)
              /\ c2 # c =>
                     \E e \in EstadosArg, rta \in RespuestasArg :
                         Actualizar(c.id, e, rta)]_vars

\* a read-only function returns a case that was updated later than it was
\* created, in a table where a request has stored another case
C15_Testigo ==
    /\ consulta.op # "ninguna"
    /\ \E i \in 1..Len(consulta.filas) :
           /\ FilaDe(consulta.filas[i]).fecha_actualizacion
                  > FilaDe(consulta.filas[i]).fecha_creacion
           /\ FilaDe(consulta.filas[i]).estado = "CERRADO"
    /\ \E q \in Activas : q.insertado # 0

\* the ids of the stored cases, now and after the step
Ids == { c.id : c \in casos }

IdsNuevos == { c.id : c \in casos' }

\* C16: no service operation deletes a case: in every step of any sequence
\* of operations the set of stored ids keeps every id it has and gains at
\* most one, it gains one only in the commit of a crear_nuevo_caso call,
\* and every crear_nuevo_caso call that returns a case has added exactly
\* one id, the one it returns.
C16_IdsSoloCrecen ==
    [][/\ Ids \subseteq IdsNuevos
       /\ Cardinality(IdsNuevos) <= Cardinality(Ids) + 1
       /\ Cardinality(IdsNuevos) = Cardinality(casos')
       /\ IdsNuevos # Ids =>
              \E q \in Activas : CommitExito(q) \/ CommitExitoRespuestaFalla(q)
       /\ \A q \in Activas :
              CommitExito(q) =>
                  \E q2 \in BagToSet(solicitudes') :
                      /\ solicitudes' = Reemplazar(q, q2)
                      /\ q2.resultado.id \notin Ids
                      /\ IdsNuevos = Ids \cup {q2.resultado.id}]_vars

\* a call has returned its case, the table holds the seed's id and the
\* call's, after an update and with the outcome of a read-only function
C16_Testigo ==
    /\ n_act >= 1
    /\ consulta.op # "ninguna"
    /\ \E q \in Activas :
           /\ q.resultado.clase = "exito"
           /\ Ids = {1, q.resultado.id}
           /\ q.resultado.id # 1

\* the status codes the service raises
CodigosHTTP == {400, 404, 500}

\* C17: every service operation (create, filtered list, get by id, update,
\* statistics, lookup by number, search by pattern) ends with a result or
\* with an HTTPException of status 400, 404 or 500: whichever storage step
\* fails, no exception of another type leaves the function.
C17_SoloHTTPException ==
    /\ consulta.excepcion \in {"ninguna", "HTTPException"}
    /\ consulta.excepcion = "HTTPException" <=>
           consulta.status_code \in CodigosHTTP
    /\ consulta.excepcion = "ninguna" => consulta.status_code = 0
    /\ http_act \in {0, 200} \cup CodigosHTTP
    /\ \A q \in Activas :
           q.pc = "fin" =>
               \/ q.resultado.clase = "exito" /\ q.resultado.status_code = 0
               \/ /\ q.resultado.clase \in {"error", "integridad", "agotado",
                                             "inesperado"}
                  /\ q.resultado.status_code \in CodigosHTTP

\* the storage layer has failed in a creation, in an update and in a
\* read-only function, and each has ended with HTTP 500
C17_Testigo ==
    /\ consulta.excepcion = "HTTPException"
    /\ consulta.status_code = 500
    /\ http_act = 500
    /\ \E q \in Activas :
           q.resultado.clase = "error" /\ q.resultado.status_code = 500

\* the place of each status in the documented flow
\* RECIBIDO -> EN_PROCESO -> RESUELTO/CERRADO
OrdenFlujo ==
    "RECIBIDO" :> 1 @@ "EN_PROCESO" :> 2 @@ "RESUELTO" :> 3 @@ "CERRADO" :> 3

\* C20: a case's estado follows the flow RECIBIDO -> EN_PROCESO ->
\* RESUELTO/CERRADO: no update moves a case to a status earlier in the flow
\* than the one it has.
C20_FlujoEstados ==
    [][\A c \in casos : \A c2 \in casos' :
          c2.id = c.id => OrdenFlujo[c2.estado] >= OrdenFlujo[c.estado]]_vars

\* C18: numbers are counted per (tipo, anio) and restart each year: storing a
\* case changes what generar_numero_caso returns for no other type and no
\* other year, and the first case of a type in a year that has none of
\* that type gets number 1, whatever rows other types and years have.
C18_PorCubeta ==
    [][\A c2 \in casos' :
          (~\E d \in casos : d.id = c2.id) =>
              /\ \A tipo \in TipoCaso : \A t \in 0..MaxReloj :
                     (tipo # c2.tipo \/ AnioDe(t) # c2.anio) =>
                         generar_numero_caso(casos', tipo, t)
                            = generar_numero_caso(casos, tipo, t)
              /\ Cubeta(c2.tipo, c2.anio) = {} => c2.numero_caso = 1]_vars

\* the first RECLAMO of 2025 has number 1 in a table that holds a RECLAMO
\* of 2026 and petitions of 2025
C18_Testigo ==
    /\ Cardinality(Cubeta("PETICION", AnioInicial)) >= 3
    /\ Cardinality(Cubeta("RECLAMO", AnioInicial + 1)) >= 1
    /\ \E q \in Activas :
           /\ q.insertado # 0
           /\ \E c \in Cubeta("RECLAMO", AnioInicial) :
                  c.id = q.insertado /\ c.numero_caso = 1

\* C19: for every case stored by crear_nuevo_caso, anio is the calendar
\* year of its fecha_creacion, whenever the generator's read and the insert
\* take place.
C19_AnioDeCreacion ==
    \A c \in FilasNuevas :
        c.anio = AnioInicial + (c.fecha_creacion \div TicksPorAnio)

\* the ids of the sequence of ids f, as a set
IdsDe(f) == { f[i] : i \in 1..Len(f) }

\* the ids of f are in the order of fecha_creacion, newest first, each once
NuevosPrimero(f) ==
    \A i \in 1..Len(f) : \A j \in 1..Len(f) :
        i < j => /\ f[i] # f[j]
                 /\ FilaDe(f[i]).fecha_creacion >= FilaDe(f[j]).fecha_creacion

\* C21: obtener_casos_filtrados(tipo, estado) returns exactly the stored
\* cases that match every filter given (a filter left as None does not
\* restrict), each once, newest fecha_creacion first, all of them whatever
\* their number, and leaves the store as it was.
C21_ListaFiltrada ==
    [][\A tipo \in TipoCaso \cup {NULL} : \A estado \in EstadoCaso \cup {NULL} :
          (/\ consulta'.op = "obtener_casos_filtrados"
           /\ consulta'.excepcion = "ninguna"
           /\ obtener_casos_filtrados(tipo, estado)) =>
              /\ Len(consulta'.filas) <= Cardinality(casos)
              /\ IdsDe(consulta'.filas)
                     = { c.id : c \in { x \in casos :
                                         /\ tipo # NULL => x.tipo = tipo
                                         /\ estado # NULL => x.estado = estado } }
              /\ NuevosPrimero(consulta'.filas)
              /\ casos' = casos
              /\ next_id' = next_id]_vars

\* the list returned has two cases, the newer first, one of them CERRADO
C21_Testigo ==
    /\ consulta.op = "obtener_casos_filtrados"
    /\ Len(consulta.filas) = 2
    /\ FilaDe(consulta.filas[1]).fecha_creacion
           > FilaDe(consulta.filas[2]).fecha_creacion
    /\ \E c \in casos : c.estado = "CERRADO"

\* the stored cases with the latest fecha_creacion
MasRecientes ==
    { c \in casos : \A d \in casos : d.fecha_creacion <= c.fecha_creacion }

\* C22: on a store that nothing else changes during the call,
\* obtener_estadisticas_sistema returns total_casos equal to the number of
\* cases, a count for each of the 5 types and each of the 4 statuses equal
\* to the number of cases with that value (0 when none), and ultimo_numero
\* equal to the formatted number of a case with the latest fecha_creacion,
\* or "Ninguno" when the store is empty.
C22_Estadisticas ==
    [][(/\ consulta'.op = "obtener_estadisticas_sistema"
        /\ consulta'.excepcion = "ninguna"
        /\ obtener_estadisticas_sistema) =>
           LET e == consulta'.estadisticas
           IN  /\ e.total_casos = Cardinality(casos)
               /\ DOMAIN e.casos_por_tipo = TipoCaso
               /\ Cardinality(TipoCaso) = 5
               /\ \A t \in TipoCaso :
                      e.casos_por_tipo[t]
                          = Cardinality({ c \in casos : c.tipo = t })
               /\ DOMAIN e.casos_por_estado = EstadoCaso
               /\ Cardinality(EstadoCaso) = 4
               /\ \A x \in EstadoCaso :
                      e.casos_por_estado[x]
                          = Cardinality({ c \in casos : c.estado = x })
               /\ casos = {} => e.ultimo_numero = Ninguno
               /\ casos # {} =>
                      \E c \in MasRecientes :
                          e.ultimo_numero = c.numero_caso_completo
               /\ casos' = casos]_vars

\* statistics of a table of two cases created at different times, one of
\* them CERRADO: the last number is the newer case's
C22_Testigo ==
    /\ consulta.op = "obtener_estadisticas_sistema"
    /\ consulta.estadisticas.total_casos = 2
    /\ consulta.estadisticas.casos_por_estado["CERRADO"] = 1
    /\ consulta.estadisticas.casos_por_estado["RECIBIDO"] = 1
    /\ \E c \in casos : \E d \in casos :
           /\ d.fecha_creacion < c.fecha_creacion
           /\ consulta.estadisticas.ultimo_numero = c.numero_caso_completo

\* s is empty or only spaces
EsBlanco(s) == \A i \in 1..Len(s) : s[i] = " "

\* the places of s that hold something other than a space
NoEspacios(s) == { k \in 1..Len(s) : s[k] # " " }

\* s from its first to its last character that is not a space
Recorte(s) ==
    IF NoEspacios(s) = {} THEN <<>>
    ELSE SubSeq(s, CHOOSE a \in NoEspacios(s) : \A k \in NoEspacios(s) : a <= k,
                   Maximo(NoEspacios(s)))

\* u is t with its lower-case letters replaced by their capitals
EsMayuscula(u, t) ==
    /\ Len(u) = Len(t)
    /\ \A i \in 1..Len(t) :
           \/ \E k \in 1..26 : t[i] = Minusculas[k] /\ u[i] = Mayusculas[k]
           \/ (\A k \in 1..26 : t[i] # Minusculas[k]) /\ u[i] = t[i]

\* the stored cases whose number is the argument trimmed and upper-cased
ConNumero(numero) ==
    LET t == Recorte(numero)
    IN  { c \in casos : EsMayuscula(c.numero_caso_completo, t) }

\* C23: buscar_caso_por_numero_completo raises HTTP 400 when its argument
\* is empty or only whitespace, raises HTTP 404 when no case has the
\* trimmed, upper-cased argument as its numero_caso_completo, and otherwise
\* returns the single case with that number; the store is unchanged in
\* all three outcomes.
C23_BusquedaPorNumero ==
    [][\A numero \in NumerosArg :
          (/\ consulta'.op = "buscar_caso_por_numero_completo"
           /\ buscar_caso_por_numero_completo(numero)) =>
              LET con == ConNumero(numero)
              IN  /\ EsBlanco(numero) =>
                         /\ consulta'.excepcion = "HTTPException"
                         /\ consulta'.status_code = 400
                  /\ (~EsBlanco(numero) /\ con = {}) =>
                         /\ consulta'.excepcion = "HTTPException"
                         /\ consulta'.status_code = 404
                  /\ (~EsBlanco(numero) /\ con # {}) =>
                         /\ consulta'.excepcion = "ninguna"
                         /\ Cardinality(con) = 1
                         /\ \E c \in con : consulta'.filas = <<c.id>>
                  /\ casos' = casos
                  /\ next_id' = next_id]_vars

\* the lookup of " pet-2025-0002 " has returned the case PET-2025-0002
C23_Testigo ==
    /\ consulta.op = "buscar_caso_por_numero_completo"
    /\ consulta.excepcion = "ninguna"
    /\ Len(consulta.filas) = 1
    /\ FilaDe(consulta.filas[1]).numero_caso_completo
           = formatear_numero_caso("PETICION", 2, AnioInicial)
    /\ Cardinality(casos) = 2

\* the rows the table held before any request
FilasDeSemilla == casos \ FilasNuevas

\* C24: if the numbers of a (tipo, anio) bucket were exactly 1..k before
\* the requests and cases enter it only through crear_nuevo_caso, then
\* after any interleaving of creations its numbers are exactly 1..k+m, m
\* being the number of creations that stored a case in it: the retries
\* leave no gap.
C24_SinHuecos ==
    LET nuevas == FilasNuevas
    IN  \A tipo \in { c.tipo : c \in casos } :
            \A anio \in { c.anio : c \in casos } :
                LET cubeta == Cubeta(tipo, anio)
                    antes == { c.numero_caso : c \in cubeta \ nuevas }
                    k == Cardinality(antes)
                    m == Cardinality(cubeta \cap nuevas)
                IN  antes = 1..k =>
                        { c.numero_caso : c \in cubeta } = 1..(k + m)

\* two requests have stored PETICION cases of 2025 in a table that had
\* none, one of them after a collision and a retry
C24_Testigo ==
    /\ FilasDeSemilla = {}
    /\ Cardinality(Cubeta("PETICION", AnioInicial) \cap FilasNuevas) = 2
    /\ \E q \in Activas : q.n_dup = 1 /\ q.resultado.clase = "exito"

\* the cases of request q's type stored by the other requests
DeOtras(q) ==
    { c \in FilasNuevas : c.id # q.insertado /\ c.tipo = q.caso_data.tipo }

\* C25: every uniqueness collision of a request is caused by the insert of
\* a different other request, so a request that competes with at most
\* max_intentos - 1 other creations of its bucket succeeds, and a request
\* ends exhausted only when at least max_intentos other creations of its
\* bucket have committed.
C25_AgotadoSoloConCompetencia ==
    \A q \in Activas :
        /\ q.n_dup <= Cardinality(DeOtras(q))
        /\ q.resultado.clase = "agotado" =>
               Cardinality(DeOtras(q)) >= q.max_intentos

\* C26: across the attempts of one request within one calendar year the
\* candidate numbers are strictly increasing: the candidate of an attempt
\* is at least the candidate of the attempt before it plus one.
C26_CandidatosCrecientes ==
    [][\A q \in Activas :
          (Generar(q) /\ q.intento > 0) =>
              \E q2 \in BagToSet(solicitudes') :
                  /\ solicitudes' = Reemplazar(q, q2)
                  /\ q2.candidato.anio = q.candidato.anio =>
                         q2.candidato.numero_caso
                             >= q.candidato.numero_caso + 1]_vars

\* C27: whenever a crear_nuevo_caso call ends with an error (generation
\* exhausted, integrity error, or any other exception, a failure of the
\* refresh or of the response conversion after the commit included), the
\* store holds no case inserted by that call.
C27_ErrorSinCaso ==
    \A q \in Activas :
        (q.pc = "fin" /\ q.resultado.clase # "exito") =>
            ~\E c \in casos : c.id = q.insertado

EstadisticasListas ==
    /\ consulta.op = "obtener_estadisticas_sistema"
    /\ consulta.excepcion = "ninguna"
    /\ consulta.pendientes = <<>>

\* C29: every result of obtener_estadisticas_sistema has total_casos equal
\* to the sum of its five counts by type and to the sum of its four counts
\* by status, also when its count queries run between creations and
\* updates of other calls.
C29_SumasIguales ==
    EstadisticasListas =>
        LET e == consulta.estadisticas
        IN  /\ e.total_casos
                   = e.casos_por_tipo["PETICION"] + e.casos_por_tipo["QUEJA"]
                     + e.casos_por_tipo["RECLAMO"]
                     + e.casos_por_tipo["SUGERENCIA"]
                     + e.casos_por_tipo["DENUNCIA"]
            /\ e.total_casos
                   = e.casos_por_estado["RECIBIDO"]
                     + e.casos_por_estado["EN_PROCESO"]
                     + e.casos_por_estado["RESUELTO"]
                     + e.casos_por_estado["CERRADO"]

\* positions of the hyphens of a string
Guiones(s) == { i \in 1..Len(s) : s[i] = "-" }

\* the part of a string between positions a and b, both excluded
Entre(s, a, b) == SubSeq(s, a + 1, b - 1)

\* a part that no reading takes for an integer: no digit in it, or a
\* character that is not a digit, a sign, a space or an underscore
NoEsEntero(p) ==
    \/ \A i \in 1..Len(p) : p[i] \notin DOMAIN ValorDigito
    \/ \E i \in 1..Len(p) : p[i] \notin DOMAIN ValorDigito \cup {"+", "-", " ", "_"}

\* a string the parser has to reject
Malformada(s) ==
    \/ Cardinality(Guiones(s)) # 2
    \/ LET a == CHOOSE i \in Guiones(s) : \A j \in Guiones(s) : i <= j
           b == CHOOSE i \in Guiones(s) : \A j \in Guiones(s) : j <= i
       IN  \/ \A t \in TipoCaso : Entre(s, 0, a) # CodigoDeTipo[t]
           \/ NoEsEntero(Entre(s, a, b))
           \/ NoEsEntero(Entre(s, b, Len(s) + 1))

\* C30: parsear_numero_caso gives back the type, the year and the sequence
\* number of the string formatear_numero_caso wrote for them, no other type,
\* year and number format to that string, and a string that has not exactly
\* three parts between hyphens, or whose first part is none of the five
\* codes, or whose year or number part is not an integer, is rejected with
\* HTTP 400.
C30_ParsearInvierte ==
    /\ (fmt.salida # <<>> /\ fmt.parseo # SinParseo)
          => fmt.parseo = [excepcion |-> "ninguna", status_code |-> 0,
                           tipo |-> fmt.tipo, anio |-> fmt.anio,
                           numero |-> fmt.numero_caso]
    /\ fmt.salida # <<>>
          => \A t \in TipoCaso, a \in AniosFmt, n \in NumerosFmt :
                 <<t, a, n>> # <<fmt.tipo, fmt.anio, fmt.numero_caso>>
                     => formatear_numero_caso(t, n, a) # fmt.salida
    /\ (fmt.salida = <<>> /\ fmt.parseo # SinParseo /\ Malformada(fmt.entrada))
          => /\ fmt.parseo.excepcion = "HTTPException"
             /\ fmt.parseo.status_code = 400

\* a number of six digits formatted and parsed back
C30_Testigo ==
    /\ fmt.tipo = "DENUNCIA" /\ fmt.anio = 1999 /\ fmt.numero_caso = 123456
    /\ fmt.entrada = fmt.salida
    /\ fmt.parseo.tipo = "DENUNCIA"
    /\ fmt.parseo.numero = 123456

\* a string with a letter in its year part given to the parser and rejected
C30_TestigoRechazo ==
    /\ fmt.entrada = <<"P", "E", "T", "-", "2", "0", "x", "5", "-", "0", "0", "0", "1">>
    /\ fmt.parseo.status_code = 400

\* a string the parser accepts although the formatter never writes it
C30_TestigoAceptada ==
    /\ fmt.entrada = <<"Q", "U", "E", "-", " ", "2", "0", "2", "5", "-", "+", "1", "_", "0">>
    /\ fmt.parseo.tipo = "QUEJA" /\ fmt.parseo.anio = 2025 /\ fmt.parseo.numero = 10

====
